---- MODULE Spec2Model ----
(***************************************************************************)
(* Verification model of three editor-side units:                          *)
(*   - CSequenceBatchRenderDialog (TrackView batch render dialog): the    *)
(*     capture state machine driven by the render timer, the movie system *)
(*     listener and the dialog buttons;                                   *)
(*   - EditorWindow (UI canvas editor): loading, saving and unloading of  *)
(*     canvases;                                                          *)
(*   - AZ::ObjectStream::WriteClass<T>.                                    *)
(* Each unit has its own state variable and its own specification.        *)
(***************************************************************************)
EXTENDS Integers, Sequences, FiniteSets, TLC

VARIABLES dlg, win, os

vars == <<dlg, win, os>>

(***************************************************************************)
(* Bounds of the model.                                                    *)
(***************************************************************************)
\* longest render list that OnAddRenderItem builds
MaxItems == 2
\* most frames a sequence plays before the movie system reports it stopped
MaxCaptureFrames == 2
\* most canvases loaded in the UI canvas editor at a time
MaxCanvases == 2
\* most root objects written to one object stream
MaxWrites == 3

(***************************************************************************)
(* CSequenceBatchRenderDialog: data                                        *)
(***************************************************************************)
NoSeq == "nullptr"
Seqs == {"seqA", "seqB"}

\* reserved value to indicate the use of the active viewport resolution
g_useActiveViewportResolution == -1

eSeqFlags_PlayOnReset == "PlayOnReset"

\* 1.0f / fps, in units of 1/1200 s (exact for every entry of the fps table)
TimeStepOf(fps) == 1200 \div fps

\* a console command line of a render item: "<name> <value>"
CVarLine(n, v) == [name |-> n, value |-> v]

\* The render items the user can configure (SetUpNewRenderItem).
RenderItemChoices ==
    { [pSequence |-> "seqA", pDirectorNode |-> "dir2",
       frameRange |-> [start |-> 1200, end |-> 2400], fps |-> 30,
       resW |-> 1280, resH |-> 720,
       disableDebugInfo |-> TRUE, bCreateVideo |-> FALSE, cvars |-> <<>>],
      [pSequence |-> "seqA", pDirectorNode |-> "dir1",
       frameRange |-> [start |-> 0, end |-> 1200], fps |-> 24,
       resW |-> g_useActiveViewportResolution, resH |-> g_useActiveViewportResolution,
       disableDebugInfo |-> FALSE, bCreateVideo |-> TRUE,
       cvars |-> <<CVarLine("r_DisplayInfo", 0)>>],
      [pSequence |-> "seqB", pDirectorNode |-> "dir1",
       frameRange |-> [start |-> 0, end |-> 2400], fps |-> 30,
       resW |-> 1920, resH |-> 1080,
       disableDebugInfo |-> FALSE, bCreateVideo |-> TRUE, cvars |-> <<>>] }

\* The sequences of the level as the dialog finds them.
InitialSeqs ==
    [s \in Seqs |->
        IF s = "seqA"
        THEN [activeDirector |-> "dir1", flags |-> {}, range |-> [start |-> 0, end |-> 4800]]
        ELSE [activeDirector |-> "dir2", flags |-> {"CutScene"}, range |-> [start |-> 0, end |-> 2400]]]

CVarNames == {"r_CustomResWidth", "r_CustomResHeight", "r_DisplayInfo"}

\* The consoles the dialog can run against: GetCVar returns null for a name
\* that is not in exists.
ConsoleChoices ==
    { [exists |-> ex,
       val |-> [n \in CVarNames |-> IF n = "r_DisplayInfo" THEN 1 ELSE 0]] :
      ex \in { CVarNames, {"r_DisplayInfo"}, {"r_CustomResWidth", "r_CustomResHeight"} } }

\* The sequence state and console values that a snapshot compares.
Snapshot(d) == [seqs |-> d.seqs, val |-> d.console.val]

(***************************************************************************)
(* CSequenceBatchRenderDialog: helpers                                     *)
(***************************************************************************)
IsInRendering(d) == d.currentItemIndex >= 0

EnterCaptureState(d, captureState) ==
    [d EXCEPT !.captureState = captureState,
              !.framesSpentInCurrentPhase = 0,
              !.visited = IF captureState = "WarmingUpAfterResChange"
                          THEN {captureState}
                          ELSE @ \cup {captureState}]

getResWidth(d, renderItemWidth) ==
    IF renderItemWidth = g_useActiveViewportResolution
    THEN d.activeViewport.w ELSE renderItemWidth

getResHeight(d, renderItemHeight) ==
    IF renderItemHeight = g_useActiveViewportResolution
    THEN d.activeViewport.h ELSE renderItemHeight

\* IConsole::ExecuteString of one line "<name> <value>"
ExecuteString(con, line) ==
    IF line.name \in con.exists
    THEN [con EXCEPT !.val[line.name] = line.value]
    ELSE con

RECURSIVE ExecuteStrings(_, _)
ExecuteStrings(con, lines) ==
    IF lines = <<>> THEN con
    ELSE ExecuteStrings(ExecuteString(con, Head(lines)), Tail(lines))

\* CGameEngine::Update: executes a queued game mode switch
GameEngineUpdate(d) == [d EXCEPT !.inGameMode = d.gameModeQueued]

SetInGameMode(d, on) == [d EXCEPT !.gameModeQueued = on]

CurrentItem(d) == d.renderItems[d.currentItemIndex + 1]

(***************************************************************************)
(* CSequenceBatchRenderDialog: handlers, as functions of the dialog state  *)
(***************************************************************************)
InitializeContext(d) == [d EXCEPT !.currentItemIndex = 0]

CaptureItemStart(d) ==
    LET renderItem == CurrentItem(d)
        nextSequence == renderItem.pSequence
        sq == d.seqs[nextSequence]
        newRange == [start |-> renderItem.frameRange.start - d.timeStep,
                     end |-> renderItem.frameRange.end]
        seqs1 == [d.seqs EXCEPT ![nextSequence] =
                     [activeDirector |-> renderItem.pDirectorNode,
                      flags |-> sq.flags \cup {eSeqFlags_PlayOnReset},
                      range |-> newRange]]
        con1 == ExecuteStrings(d.console, renderItem.cvars)
        renderWidth == getResWidth(d, renderItem.resW)
        renderHeight == getResHeight(d, renderItem.resH)
        hasRes == {"r_CustomResWidth", "r_CustomResHeight"} \subseteq con1.exists
        con2 == IF hasRes
                THEN [con1 EXCEPT !.val["r_CustomResWidth"] = renderWidth,
                                  !.val["r_CustomResHeight"] = renderHeight]
                ELSE con1
        hasInfo == "r_DisplayInfo" \in con2.exists
        con3 == IF hasInfo /\ renderItem.disableDebugInfo /\ con2.val["r_DisplayInfo"] # 0
                THEN [con2 EXCEPT !.val["r_DisplayInfo"] = 0]
                ELSE con2
        d1 == [d EXCEPT
                 !.listGroupEnabled = FALSE,
                 !.canceled = FALSE,
                 !.CV_TrackViewRenderOutputCapturing = 1,
                 !.pActiveDirectorBU = sq.activeDirector,
                 !.flagBU = sq.flags,
                 !.rangeBU = sq.range,
                 !.seqs = seqs1,
                 !.timeStep = TimeStepOf(renderItem.fps),
                 !.cvarCustomResWidthBU = IF hasRes THEN con1.val["r_CustomResWidth"] ELSE @,
                 !.cvarCustomResHeightBU = IF hasRes THEN con1.val["r_CustomResHeight"] ELSE @,
                 !.viewport = IF hasRes THEN @ ELSE [w |-> renderWidth, h |-> renderHeight],
                 !.cvarDisplayInfoBU = IF hasInfo THEN con2.val["r_DisplayInfo"] ELSE @,
                 !.console = con3,
                 !.fixedStep = TimeStepOf(renderItem.fps),
                 !.timerActive = TRUE,
                 !.startLog = Append(@, d.currentItemIndex),
                 !.pauseCount = 0,
                 !.warmUpTicks = 0,
                 !.gameModeTicks = 0,
                 !.preStart = Snapshot(d),
                 !.atBackup = con1.val]
    IN  EnterCaptureState(d1, "WarmingUpAfterResChange")

OnMovieEvent(d, event, pSequence) ==
    IF event \in {"Stopped", "Aborted"}
    THEN IF pSequence # NoSeq
         THEN [EnterCaptureState(d, "End") EXCEPT
                  !.endingSequence = pSequence,
                  !.canceled = (event = "Aborted")]
         ELSE IF Len(d.renderItems) > 0
              THEN CaptureItemStart([d EXCEPT !.currentItemIndex = 0])
              ELSE d
    ELSE d

\* IMovieSystem::AbortSequence: notifies the listeners of the sequence
AbortSequence(d, sequence) ==
    IF sequence \in d.listeners THEN OnMovieEvent(d, "Aborted", sequence) ELSE d

\* a cancel that ends the item from any state
OnCancelRender_AnyState(d) ==
    IF d.captureState = "Capturing"
    THEN AbortSequence(d, CurrentItem(d).pSequence)
    ELSE EnterCaptureState([d EXCEPT !.endingSequence = CurrentItem(d).pSequence,
                                     !.canceled = TRUE], "End")

OnCancelRender(d) ==
    IF d.captureState = "Capturing"
    THEN AbortSequence(d, CurrentItem(d).pSequence)
    ELSE IF d.captureState = "EnteringGameMode"
         THEN EnterCaptureState([d EXCEPT !.endingSequence = CurrentItem(d).pSequence,
                                          !.canceled = TRUE], "End")
         ELSE d

OnGo(d) ==
    IF IsInRendering(d)
    THEN OnCancelRender(d)
    ELSE OnMovieEvent(InitializeContext(
             [d EXCEPT !.batchRenderMode = TRUE,
                       !.startLog = <<>>, !.endLog = {}, !.finalizeLog = {},
                       !.preBatch = Snapshot(d),
                       !.batchItems = d.renderItems]),
             "Stopped", NoSeq)

\* a reject that closes the dialog unconditionally
reject_Unguarded(d) == [d EXCEPT !.dialogOpen = FALSE]

reject(d) ==
    IF IsInRendering(d)
    THEN OnCancelRender(d)
    ELSE [d EXCEPT !.dialogOpen = FALSE]

OnDone(d) ==
    IF IsInRendering(d)
    THEN OnCancelRender(d)
    ELSE reject([d EXCEPT !.presetSaved = TRUE])

\* a warm-up that tests the incremented counter
OnUpdateWarmingUpAfterResChange_PreIncrement(d) ==
    LET f == d.framesSpentInCurrentPhase + 1
        d1 == [d EXCEPT !.framesSpentInCurrentPhase = f]
    IN  IF f >= 30
        THEN EnterCaptureState(SetInGameMode(d1, TRUE), "EnteringGameMode")
        ELSE d1

OnUpdateWarmingUpAfterResChange(d) ==
    LET f == d.framesSpentInCurrentPhase
        d1 == [d EXCEPT !.framesSpentInCurrentPhase = f + 1]
    IN  IF f >= 30
        THEN EnterCaptureState(SetInGameMode(d1, TRUE), "EnteringGameMode")
        ELSE d1

OnUpdateEnteringGameMode(d) ==
    LET d0 == GameEngineUpdate(d)
        f == d0.framesSpentInCurrentPhase
    IN  IF f = 0
        THEN [d0 EXCEPT !.framesSpentInCurrentPhase = f + 1,
                        !.moviePaused = TRUE,
                        !.pauseCount = @ + 1]
        ELSE IF f + 1 > 30
             THEN EnterCaptureState(d0, "BeginPlayingSequence")
             ELSE [d0 EXCEPT !.framesSpentInCurrentPhase = f + 2]

OnUpdateBeginPlayingSequence(d) ==
    LET renderItem == CurrentItem(d)
        newRange == [start |-> renderItem.frameRange.start - d.timeStep,
                     end |-> renderItem.frameRange.end]
        d1 == [d EXCEPT !.listeners = @ \cup {renderItem.pSequence},
                        !.moviePaused = FALSE,
                        !.seqs[renderItem.pSequence].range = newRange]
    IN  EnterCaptureState(d1, "Capturing")

OnUpdateCapturing(d) ==
    IF ~d.inGameMode
    THEN EnterCaptureState([d EXCEPT !.endingSequence = CurrentItem(d).pSequence,
                                     !.canceled = TRUE], "End")
    ELSE [d EXCEPT !.framesSpentInCurrentPhase = @ + 1]

\* a restore that forgets the active director
RestoreItemState_NoDirector(d, sequence) ==
    [d EXCEPT !.seqs[sequence].flags = d.flagBU,
              !.seqs[sequence].range = d.rangeBU]

\* OnUpdateEnd: restore the cvars and the flags, range and active director
RestoreItemState(d, sequence) ==
    LET hasRes == {"r_CustomResWidth", "r_CustomResHeight"} \subseteq d.console.exists
        con1 == IF hasRes
                THEN [d.console EXCEPT !.val["r_CustomResWidth"] = d.cvarCustomResWidthBU,
                                       !.val["r_CustomResHeight"] = d.cvarCustomResHeightBU]
                ELSE d.console
        con2 == IF "r_DisplayInfo" \in con1.exists
                THEN [con1 EXCEPT !.val["r_DisplayInfo"] = d.cvarDisplayInfoBU]
                ELSE con1
    IN  [d EXCEPT !.console = con2,
                  !.seqs[sequence] = [activeDirector |-> d.pActiveDirectorBU,
                                      flags |-> d.flagBU,
                                      range |-> d.rangeBU]]

OnUpdateEnd(d, sequence) ==
    LET d0 == GameEngineUpdate(SetInGameMode(
                  [d EXCEPT !.fixedStep = 0, !.listeners = @ \ {sequence}], FALSE))
        d1 == [RestoreItemState(d0, sequence) EXCEPT
                  !.endLog = @ \cup {d0.currentItemIndex}]
        renderItem == CurrentItem(d1)
    IN  IF d1.m_bFFMPEGCommandAvailable /\ renderItem.bCreateVideo
        THEN EnterCaptureState([d1 EXCEPT !.processingFFMPEG = TRUE,
                                          !.ffmpegRunning = TRUE], "FFMPEGProcessing")
        ELSE EnterCaptureState(d1, "Finalize")

OnUpdateFFMPEGProcessing(d) ==
    IF ~d.processingFFMPEG THEN EnterCaptureState(d, "Finalize") ELSE d

\* a batch end that leaves the console variable set
FinishBatch_KeepsCVar(d) ==
    EnterCaptureState([d EXCEPT !.batchRenderMode = FALSE,
                                !.currentItemIndex = -1], "Idle")

\* OnUpdateFinalize, no more items to process
FinishBatch(d) ==
    EnterCaptureState([d EXCEPT !.batchRenderMode = FALSE,
                                !.currentItemIndex = -1,
                                !.CV_TrackViewRenderOutputCapturing = 0], "Idle")

\* a next-item trigger that forgets to advance the index
TriggerNextItem_NoAdvance(d) == CaptureItemStart(d)

\* OnUpdateFinalize, more items to process
TriggerNextItem(d) == CaptureItemStart([d EXCEPT !.currentItemIndex = @ + 1])

OnUpdateFinalize(d) ==
    LET d1 == [d EXCEPT !.timerActive = FALSE,
                        !.listGroupEnabled = TRUE,
                        !.finalizeLog = @ \cup {d.currentItemIndex}]
        done == d1.currentItemIndex = Len(d1.renderItems) - 1
    IN  IF done THEN FinishBatch(d1) ELSE TriggerNextItem(d1)

\* a capture decision that does not skip the first frame
ShouldCapture_FirstFrameToo(d) == d.captureState = "Capturing"

\* "bool capturing" of OnKickIdle
ShouldCapture(d) ==
    IF d.framesSpentInCurrentPhase = 0
    THEN FALSE
    ELSE d.captureState = "Capturing"

OnKickIdle(d0) ==
    LET \* observation: the ticks that the two warm-up handlers handle for the item
        d == [d0 EXCEPT
                !.warmUpTicks = IF d0.captureState = "WarmingUpAfterResChange" THEN @ + 1 ELSE @,
                !.gameModeTicks = IF d0.captureState = "EnteringGameMode" THEN @ + 1 ELSE @]
        d1 == CASE d.captureState = "WarmingUpAfterResChange" -> OnUpdateWarmingUpAfterResChange(d)
                [] d.captureState = "EnteringGameMode" -> OnUpdateEnteringGameMode(d)
                [] d.captureState = "BeginPlayingSequence" -> OnUpdateBeginPlayingSequence(d)
                [] d.captureState = "Capturing" -> OnUpdateCapturing(d)
                [] d.captureState = "End" ->
                       [OnUpdateEnd(d, d.endingSequence) EXCEPT !.endingSequence = NoSeq]
                [] d.captureState = "FFMPEGProcessing" -> OnUpdateFFMPEGProcessing(d)
                [] d.captureState = "Finalize" -> OnUpdateFinalize(d)
                [] OTHER -> d
        capturing == ShouldCapture(d1)
        \* observation: the state handler of the tick, the state and the game
        \* mode after it, the frame passed to StartCapture (0: none), and the
        \* calls of the movie system and the game engine after the handler
        tick == [handled |-> d.captureState,
                 after |-> d1.captureState,
                 inGameMode |-> d1.inGameMode,
                 frame |-> 0,
                 calls |-> <<>>]
    IN  IF d1.inGameMode
        THEN [GameEngineUpdate(d1) EXCEPT
                 !.lastTick = [tick EXCEPT
                     !.frame = IF capturing THEN d1.framesSpentInCurrentPhase ELSE 0,
                     !.calls = (IF capturing THEN <<"StartCapture">> ELSE <<>>)
                               \o <<"Update">>
                               \o (IF capturing THEN <<"EndCapture">> ELSE <<>>)]]
        ELSE [d1 EXCEPT !.lastTick = tick]

\* a timer handler that does not re-arm the single-shot timer
OnKickIdleTimout_NoRearm(d) == OnKickIdle([d EXCEPT !.timerActive = FALSE])

OnKickIdleTimout(d) ==
    LET d1 == OnKickIdle([d EXCEPT !.timerActive = FALSE])
    IN  IF IsInRendering(d1) THEN [d1 EXCEPT !.timerActive = TRUE] ELSE d1

AddItem(d, item) ==
    [d EXCEPT !.renderItems = Append(@, item), !.goBtnEnabled = TRUE]

OnClearRenderItems(d) ==
    [d EXCEPT !.renderItems = <<>>, !.goBtnEnabled = FALSE]

(***************************************************************************)
(* CSequenceBatchRenderDialog: the state after construction                *)
(***************************************************************************)
DialogAfterConstruction(con, ffmpeg, ts) ==
            [ renderItems |-> <<>>,
              goBtnEnabled |-> FALSE,
              listGroupEnabled |-> TRUE,
              dialogOpen |-> TRUE,
              presetSaved |-> FALSE,
              m_bFFMPEGCommandAvailable |-> ffmpeg,
              CV_TrackViewRenderOutputCapturing |-> 0,
              timerActive |-> FALSE,
              \* m_renderContext
              currentItemIndex |-> -1,
              captureState |-> "Idle",
              framesSpentInCurrentPhase |-> 0,
              canceled |-> FALSE,
              endingSequence |-> NoSeq,
              processingFFMPEG |-> FALSE,
              pActiveDirectorBU |-> "dir1",
              flagBU |-> {},
              rangeBU |-> [start |-> 0, end |-> 0],
              cvarCustomResWidthBU |-> 0,
              cvarCustomResHeightBU |-> 0,
              cvarDisplayInfoBU |-> 0,
              timeStep |-> ts,
              \* editor, movie system, console
              activeViewport |-> [w |-> 800, h |-> 600],
              viewport |-> [w |-> 800, h |-> 600],
              seqs |-> InitialSeqs,
              console |-> con,
              inGameMode |-> FALSE,
              gameModeQueued |-> FALSE,
              listeners |-> {},
              moviePaused |-> FALSE,
              batchRenderMode |-> FALSE,
              fixedStep |-> 0,
              ffmpegRunning |-> FALSE,
              \* observation of the run (not program state)
              startLog |-> <<>>,
              endLog |-> {},
              finalizeLog |-> {},
              visited |-> {},
              pauseCount |-> 0,
              warmUpTicks |-> 0,
              gameModeTicks |-> 0,
              preStart |-> [seqs |-> InitialSeqs, val |-> con.val],
              preBatch |-> [seqs |-> InitialSeqs, val |-> con.val],
              atBackup |-> con.val,
              batchItems |-> <<>>,
              lastTick |-> [handled |-> "Idle", after |-> "Idle", inGameMode |-> FALSE,
                            frame |-> 0, calls |-> <<>>] ]


(***************************************************************************)
(* EditorWindow (UI canvas editor): data                                   *)
(***************************************************************************)
\* AZ::EntityId(): the invalid entity id
InvalidEntityId == 0
CanvasIds == 1..MaxCanvases

\* file names the user can ask to open; a canvas can be opened from the
\* cache folder, the asset system then finds the path of its source file
OpenFileChoices == {"a.uicanvas", "cache/a.uicanvas", "c.xml"}

\* GetRelativeProductPathFromFullSourceOrProductPath followed by
\* GetFullSourcePathFromRelativeProductPath
SourcePathOf(canvasFilename) ==
    IF canvasFilename = "cache/a.uicanvas" THEN "a.uicanvas" ELSE canvasFilename

\* FileHelpers::FilenameHasExtension(filename, UICANVASEDITOR_CANVAS_EXTENSION)
FilenameHasExtension(filename) == filename \in {"a.uicanvas", "cache/a.uicanvas"}

\* What the user and the environment answer during SaveCanvasToXml: the
\* file chosen in the save dialog with the extension appended ("" when the
\* dialog is canceled), whether the asset system finds it in the project,
\* the answer to the "saved outside the source folder" warning, and whether
\* UiCanvasBus SaveToXml succeeds.
SaveInputs ==
    { [file |-> "", inProject |-> TRUE, warn |-> "Cancel", saveSuccessful |-> TRUE],
      [file |-> "a.uicanvas", inProject |-> TRUE, warn |-> "Cancel", saveSuccessful |-> TRUE],
      [file |-> "a.uicanvas", inProject |-> TRUE, warn |-> "Cancel", saveSuccessful |-> FALSE],
      [file |-> "a.uicanvas", inProject |-> FALSE, warn |-> "Save", saveSuccessful |-> TRUE],
      [file |-> "a.uicanvas", inProject |-> FALSE, warn |-> "Cancel", saveSuccessful |-> TRUE] }

\* The answer to the "Save changes" question together with the save inputs.
NoPrompt == [result |-> "Cancel", save |-> CHOOSE x \in SaveInputs : x.file = ""]

PromptInputs ==
    { NoPrompt, [NoPrompt EXCEPT !.result = "Discard"] }
    \cup { [result |-> "Save", save |-> i] :
             i \in {x \in SaveInputs : x.inProject /\ x.file # ""} }

\* the answers for those of the canvases ids that have unsaved changes
PromptsFor(w, ids) ==
    [{c \in ids \cap DOMAIN w.canvases : ~w.canvases[c].undoStackClean} -> PromptInputs]

PromptOf(ins, c) == IF c \in DOMAIN ins THEN ins[c] ELSE NoPrompt

NoAnswers == [c \in CanvasIds |-> "none"]

RemoveAt(seq, i) == [j \in 1..(Len(seq) - 1) |-> IF j < i THEN seq[j] ELSE seq[j + 1]]

Restrict(f, S) == [x \in S |-> f[x]]

(***************************************************************************)
(* EditorWindow: handlers, as functions of the window state                *)
(***************************************************************************)
\* 0 stands for the -1 of the tab bar
GetTabIndexForCanvasEntityId(w, canvasEntityId) ==
    IF \E i \in 1..Len(w.tabs) : w.tabs[i] = canvasEntityId
    THEN CHOOSE i \in 1..Len(w.tabs) : w.tabs[i] = canvasEntityId
    ELSE 0

GetCanvasEntityIdForTabIndex(w, index) ==
    IF index \in 1..Len(w.tabs) THEN w.tabs[index] ELSE InvalidEntityId

HasCanvasMetadata(w, canvasEntityId) == canvasEntityId \in DOMAIN w.canvases

GetChangesHaveBeenMade(canvasMetadata) == ~canvasMetadata.undoStackClean

\* busy: the entity context of the active canvas has pending requests or is
\* instantiating slices
CanChangeActiveCanvas(w, busy) == ~(HasCanvasMetadata(w, w.active) /\ busy)

\* QTabBar::setCurrentIndex ignores an invalid index; the currentChanged
\* signal it emits finds the tab of the active canvas and returns
SetActiveCanvas(w, canvasEntityId) ==
    IF canvasEntityId = w.active
    THEN w
    ELSE LET idx == GetTabIndexForCanvasEntityId(w, canvasEntityId)
         IN  [w EXCEPT !.active = canvasEntityId,
                       !.current = IF idx # 0 THEN idx ELSE @]

OnCurrentCanvasTabChanged(w, index, busy) ==
    LET canvasEntityId == GetCanvasEntityIdForTabIndex(w, index)
    IN  IF index >= 1 /\ canvasEntityId = InvalidEntityId THEN w
        ELSE IF canvasEntityId # InvalidEntityId /\ canvasEntityId = w.active THEN w
        ELSE IF ~CanChangeActiveCanvas(w, busy)
             THEN LET activeCanvasIndex == GetTabIndexForCanvasEntityId(w, w.active)
                  IN  [w EXCEPT !.current = IF activeCanvasIndex # 0 THEN activeCanvasIndex ELSE @]
             ELSE SetActiveCanvas(w, canvasEntityId)

\* QTabBar::removeTab: the tab to the right becomes current when the current
\* tab is removed; currentChanged is emitted when the current index changes
removeTab(w, index, busy) ==
    IF index \notin 1..Len(w.tabs) THEN w
    ELSE LET tabs1 == RemoveAt(w.tabs, index)
             w1 == [w EXCEPT !.tabs = tabs1]
         IN  IF index = w.current
             THEN LET cur == IF index <= Len(tabs1) THEN index ELSE index - 1
                  IN  OnCurrentCanvasTabChanged([w1 EXCEPT !.current = cur], cur, busy)
             ELSE IF index < w.current
                  THEN OnCurrentCanvasTabChanged([w1 EXCEPT !.current = @ - 1],
                                                 w.current - 1, busy)
                  ELSE w1

\* an unload that keeps the metadata in the map
UnloadCanvas_KeepsMetadata(w, canvasEntityId, busy) ==
    removeTab(w, GetTabIndexForCanvasEntityId(w, canvasEntityId), busy)

UnloadCanvas(w, canvasEntityId, busy) ==
    IF ~HasCanvasMetadata(w, canvasEntityId) THEN w
    ELSE LET w1 == [w EXCEPT !.canvases = Restrict(@, DOMAIN @ \ {canvasEntityId}),
                             !.unloaded = @ \cup {[id |-> canvasEntityId,
                                                   clean |-> w.canvases[canvasEntityId].undoStackClean]}]
             w2 == removeTab(w1, GetTabIndexForCanvasEntityId(w1, canvasEntityId), busy)
         IN  IF ~HasCanvasMetadata(w2, w2.active)
             THEN SetActiveCanvas(w2, GetCanvasEntityIdForTabIndex(w2, w2.current))
             ELSE w2

RECURSIVE UnloadCanvases(_, _, _)
UnloadCanvases(w, canvasEntityIds, busy) ==
    IF canvasEntityIds = <<>> THEN w
    ELSE UnloadCanvases(UnloadCanvas(w, Head(canvasEntityIds), busy),
                        Tail(canvasEntityIds), busy)

\* the result of a handler that returns bool: the value and the new state
Result(ok, w) == [ok |-> ok, w |-> w]

SaveCanvasToXml(w, c, forceAskingForFilename, in) ==
    LET canvasMetadata == w.canvases[c]
        path == canvasMetadata.m_canvasSourceAssetPathname
        force == \/ forceAskingForFilename
                 \/ (path # "" /\ ~FilenameHasExtension(path))
        ask == path = "" \/ force
        sourceAssetPathName == IF ask THEN in.file ELSE path
    IN  IF ask /\ in.file = "" THEN Result(FALSE, w)
        ELSE IF ask /\ ~in.inProject /\ in.warn # "Save" THEN Result(FALSE, w)
        ELSE IF in.saveSuccessful
             THEN Result(TRUE,
                    [w EXCEPT !.canvases[c] =
                        [canvasMetadata EXCEPT
                            !.m_canvasSourceAssetPathname = sourceAssetPathName,
                            !.undoStackClean = TRUE]])
             ELSE Result(FALSE, w)

\* an unload check that takes a failed save for a successful one
CanUnloadCanvas_IgnoresFailedSave(w, c, in) ==
    IF GetChangesHaveBeenMade(w.canvases[c])
    THEN IF in.result = "Save"
         THEN LET r == SaveCanvasToXml(w, c, FALSE, in.save)
              IN  Result(TRUE, [r.w EXCEPT !.answers[c] = IF r.ok THEN "SaveOk" ELSE "SaveFailed"])
         ELSE IF in.result = "Discard"
              THEN Result(TRUE, [w EXCEPT !.answers[c] = "Discard"])
              ELSE Result(FALSE, [w EXCEPT !.answers[c] = "Cancel"])
    ELSE Result(TRUE, w)

CanUnloadCanvas(w, c, in) ==
    IF GetChangesHaveBeenMade(w.canvases[c])
    THEN IF in.result = "Save"
         THEN LET r == SaveCanvasToXml(w, c, FALSE, in.save)
              IN  Result(r.ok, [r.w EXCEPT !.answers[c] = IF r.ok THEN "SaveOk" ELSE "SaveFailed"])
         ELSE IF in.result = "Discard"
              THEN Result(TRUE, [w EXCEPT !.answers[c] = "Discard"])
              ELSE Result(FALSE, [w EXCEPT !.answers[c] = "Cancel"])
    ELSE Result(TRUE, w)

\* "Check if all canvases can be unloaded": asks for the canvases of ids in
\* increasing id order and stops at the first refusal
RECURSIVE CanUnloadAll(_, _, _)
CanUnloadAll(w, ids, ins) ==
    IF ids = {} THEN Result(TRUE, w)
    ELSE LET c == CHOOSE x \in ids : \A y \in ids : x <= y
             r == CanUnloadCanvas(w, c, PromptOf(ins, c))
         IN  IF ~r.ok THEN r ELSE CanUnloadAll(r.w, ids \ {c}, ins)

\* the ids of a set as a list in increasing order
RECURSIVE IdList(_)
IdList(ids) ==
    IF ids = {} THEN <<>>
    ELSE LET c == CHOOSE x \in ids : \A y \in ids : x <= y
         IN  <<c>> \o IdList(ids \ {c})

\* a condition that does not look at the undo stack of the automatically
\* created canvas
ShouldUnloadAutoCanvas_IgnoresChanges(w, newPath) ==
    /\ newPath # ""
    /\ Cardinality(DOMAIN w.canvases) = 1
    /\ HasCanvasMetadata(w, w.active)
    /\ w.canvases[w.active].m_autoLoaded
    /\ w.canvases[w.active].m_canvasSourceAssetPathname = ""

\* the condition under which LoadCanvas unloads the automatically created canvas
ShouldUnloadAutoCanvas(w, newPath) ==
    /\ newPath # ""
    /\ Cardinality(DOMAIN w.canvases) = 1
    /\ HasCanvasMetadata(w, w.active)
    /\ w.canvases[w.active].m_autoLoaded
    /\ w.canvases[w.active].m_canvasSourceAssetPathname = ""
    /\ ~GetChangesHaveBeenMade(w.canvases[w.active])

\* "Check if canvas is already loaded"
AlreadyLoadedCanvas(w, sourceAssetPathName) ==
    IF \E c \in DOMAIN w.canvases :
           w.canvases[c].m_canvasSourceAssetPathname = sourceAssetPathName
    THEN CHOOSE c \in DOMAIN w.canvases :
           w.canvases[c].m_canvasSourceAssetPathname = sourceAssetPathName
    ELSE InvalidEntityId

\* env: popup (a context menu is up), found (the asset system resolves the
\* file), loaded (LoadCanvasInEditor returns a valid canvas), busy
LoadCanvas(w, canvasFilename, autoLoad, changeActiveCanvasToThis, env) ==
    LET sourceAssetPathName == IF canvasFilename # "" THEN SourcePathOf(canvasFilename) ELSE ""
        alreadyLoadedCanvas == IF canvasFilename # ""
                               THEN AlreadyLoadedCanvas(w, sourceAssetPathName)
                               ELSE InvalidEntityId
        canvasEntityId == CHOOSE c \in CanvasIds \ DOMAIN w.canvases :
                             \A y \in CanvasIds \ DOMAIN w.canvases : c <= y
    IN  IF env.popup THEN w
        ELSE IF canvasFilename # "" /\ ~env.found THEN w
        ELSE IF alreadyLoadedCanvas # InvalidEntityId
             THEN IF changeActiveCanvasToThis /\ CanChangeActiveCanvas(w, env.busy)
                  THEN SetActiveCanvas(w, alreadyLoadedCanvas)
                  ELSE w
        ELSE IF canvasFilename # "" /\ ~env.loaded THEN w
        ELSE IF DOMAIN w.canvases = CanvasIds THEN w
        ELSE LET canvasMetadata ==
                     [m_canvasSourceAssetPathname |-> sourceAssetPathName,
                      undoStackClean |-> TRUE,
                      m_autoLoaded |-> autoLoad]
                 unload == ShouldUnloadAutoCanvas(w, sourceAssetPathName)
                 unloadCanvasEntityId == IF unload THEN w.active ELSE InvalidEntityId
                 w1 == [w EXCEPT !.tabs = Append(@, canvasEntityId),
                                 !.current = IF Len(w.tabs) = 0 THEN 1 ELSE @,
                                 !.canvases = [c \in DOMAIN @ \cup {canvasEntityId} |->
                                                  IF c = canvasEntityId THEN canvasMetadata ELSE @[c]]]
                 w2 == IF (changeActiveCanvasToThis \/ w1.active = InvalidEntityId)
                          /\ CanChangeActiveCanvas(w1, env.busy)
                       THEN SetActiveCanvas(w1, canvasEntityId)
                       ELSE w1
             IN  IF unloadCanvasEntityId # InvalidEntityId
                 THEN UnloadCanvas(w2, unloadCanvasEntityId, env.busy)
                 ELSE w2

NewCanvas(w, env) == LoadCanvas(w, "", FALSE, TRUE, env)

OpenCanvas(w, canvasFilename, env) == LoadCanvas(w, canvasFilename, FALSE, TRUE, env)

RECURSIVE OpenCanvasesFrom(_, _, _, _)
OpenCanvasesFrom(w, canvasFilenames, i, env) ==
    IF i > Len(canvasFilenames) THEN w
    ELSE OpenCanvasesFrom(LoadCanvas(w, canvasFilenames[i], FALSE, i = 1, env),
                          canvasFilenames, i + 1, env)

OpenCanvases(w, canvasFilenames, env) == OpenCanvasesFrom(w, canvasFilenames, 1, env)

CloseCanvas(w, canvasEntityId, in, busy) ==
    IF HasCanvasMetadata(w, canvasEntityId)
    THEN LET r == CanUnloadCanvas(w, canvasEntityId, in)
         IN  IF r.ok THEN UnloadCanvas(r.w, canvasEntityId, busy) ELSE r.w
    ELSE w

OnCanvasTabCloseButtonPressed(w, index, in, busy) ==
    CloseCanvas(w, GetCanvasEntityIdForTabIndex(w, index), in, busy)

CloseAllCanvases(w, ins, busy) ==
    IF w.active = InvalidEntityId THEN w
    ELSE LET r == CanUnloadAll(w, DOMAIN w.canvases, ins)
         IN  IF ~r.ok THEN r.w
             ELSE UnloadCanvases(r.w,
                     IdList(DOMAIN r.w.canvases \ {r.w.active}) \o <<r.w.active>>, busy)

CloseAllOtherCanvases(w, canvasEntityId, ins, busy) ==
    IF Cardinality(DOMAIN w.canvases) < 2 THEN w
    ELSE LET r == CanUnloadAll(w, DOMAIN w.canvases \ {canvasEntityId}, ins)
         IN  IF ~r.ok THEN r.w
             ELSE UnloadCanvases(r.w, IdList(DOMAIN r.w.canvases \ {canvasEntityId}), busy)

CanExitNow(w, ins) == CanUnloadAll(w, DOMAIN w.canvases, ins)

closeEvent(w, ins) ==
    LET r == CanExitNow(w, ins)
    IN  IF ~r.ok THEN r.w ELSE [r.w EXCEPT !.windowOpen = FALSE]

\* the state after the constructor, which creates an empty canvas
EmptyWindow ==
    [canvases |-> [c \in {} |-> 0], tabs |-> <<>>, current |-> 0,
     active |-> InvalidEntityId, windowOpen |-> TRUE,
     answers |-> NoAnswers, unloaded |-> {}, singleLoad |-> FALSE]

NoPopup == [popup |-> FALSE, found |-> TRUE, loaded |-> TRUE, busy |-> FALSE]

LoadEnvs ==
    { NoPopup,
      [NoPopup EXCEPT !.popup = TRUE],
      [NoPopup EXCEPT !.found = FALSE],
      [NoPopup EXCEPT !.loaded = FALSE],
      [NoPopup EXCEPT !.busy = TRUE] }

\* start of a handler: the observation of the previous one is cleared
Begin(w, singleLoad) ==
    [w EXCEPT !.answers = NoAnswers, !.unloaded = {}, !.singleLoad = singleLoad]

(***************************************************************************)
(* AZ::ObjectStream::WriteClass<T>                                         *)
(***************************************************************************)
\* The classes of the objects handed to WriteClass<T>.  A Derived object
\* holds its Base subobject at an offset; Vector is a generic type that has
\* generic class info but is never registered with the serialize context.
Classes == {"Base", "Derived", "Other", "Vector"}

\* SerializeTypeInfo<T>::GetUuid
UuidOf(class) ==
    CASE class = "Base" -> "{B}"
      [] class = "Derived" -> "{D}"
      [] class = "Other" -> "{O}"
      [] class = "Vector" -> "{V}"

\* where the T subobject lies inside a complete object of class dyn
SubobjectOffset(T, dyn) == IF T = "Base" /\ dyn = "Derived" THEN 8 ELSE 0

\* The objects a caller can pass: a pointer of static type T to an object of
\* dynamic class dyn; ptr is the address that the T pointer holds.
RootObjects ==
    { [T |-> "Base", dyn |-> "Base", ptr |-> 100],
      [T |-> "Base", dyn |-> "Derived", ptr |-> 208],
      [T |-> "Derived", dyn |-> "Derived", ptr |-> 200],
      [T |-> "Other", dyn |-> "Other", ptr |-> 300],
      [T |-> "Vector", dyn |-> "Vector", ptr |-> 400] }

\* SerializeTypeInfo<T>::RttiCast(obj, GetRttiTypeId(obj)): the address of
\* the complete object
RttiCast(obj) == obj.ptr - SubobjectOffset(obj.T, obj.dyn)

\* SerializeContext::FindClassData
FindClassData(o, classId) == classId \in o.registered

\* SerializeGenericTypeInfo<T>::GetGenericInfo
GetGenericInfo(T) == T = "Vector"

\* the virtual WriteClass(classPtr, classId) of the stream implementation:
\* it appends the root element to the stream when it succeeds
VirtualWriteClass(o, classPtr, classId, success) ==
    [o EXCEPT !.stream = IF success THEN Append(@, <<classPtr, classId>>) ELSE @,
              !.virtualCalls = Append(@, [classPtr |-> classPtr, classId |-> classId,
                                          result |-> success])]

\* a WriteClass<T> that does not look the class up
WriteClassT_NoLookup(o, obj, success) ==
    [VirtualWriteClass(o, RttiCast(obj), UuidOf(obj.dyn), success) EXCEPT
        !.returned = Append(@, success)]

\* template<typename T> bool ObjectStream::WriteClass(const T* obj, ...)
\* success is what the virtual WriteClass returns if it is called
WriteClassT(o, obj, success) ==
    LET classPtr == RttiCast(obj)
        classId == UuidOf(obj.dyn)
    IN  IF ~FindClassData(o, classId)
        THEN [o EXCEPT !.errors = @ \cup {IF GetGenericInfo(obj.T) THEN "generic" ELSE "unregistered"},
                       !.returned = Append(@, FALSE)]
        ELSE [VirtualWriteClass(o, classPtr, classId, success) EXCEPT
                 !.returned = Append(@, success)]

\* an object stream on a serialize context without reflected classes
StreamAfterCreate ==
    [registered |-> {}, stream |-> <<>>, errors |-> {},
     \* observation: the root objects passed, whether their class was
     \* reflected at that time, what WriteClass<T> returned and the calls of
     \* the virtual WriteClass
     passed |-> <<>>, known |-> <<>>, returned |-> <<>>, virtualCalls |-> <<>>]


\* EditorWindow::EditorWindow creates an empty canvas
WindowAfterConstruction ==
    LoadCanvas(Begin(EmptyWindow, TRUE), "", TRUE, TRUE, NoPopup)

\* the console, the ffmpeg plug-in and the capture time step are as the
\* dialog finds them
InitDlg ==
    \E con \in ConsoleChoices, ffmpeg \in BOOLEAN, ts \in {TimeStepOf(30), TimeStepOf(24)} :
        dlg = DialogAfterConstruction(con, ffmpeg, ts)

OneDialog ==
    DialogAfterConstruction(CHOOSE con \in ConsoleChoices : con.exists = CVarNames,
                            TRUE, TimeStepOf(30))

Init == InitDlg /\ win = WindowAfterConstruction /\ os = StreamAfterCreate

InitWin == dlg = OneDialog /\ win = WindowAfterConstruction /\ os = StreamAfterCreate

InitOs == dlg = OneDialog /\ win = WindowAfterConstruction /\ os = StreamAfterCreate

(***************************************************************************)
(* CSequenceBatchRenderDialog: actions                                     *)
(***************************************************************************)
\* the Add button: OnAddRenderItem refuses a duplicate
OnAddRenderItemAct ==
    /\ dlg.dialogOpen /\ dlg.listGroupEnabled
    /\ Len(dlg.renderItems) < MaxItems
    /\ \E item \in RenderItemChoices :
         /\ \A i \in 1..Len(dlg.renderItems) : dlg.renderItems[i] # item
         /\ dlg' = AddItem(dlg, item)
    /\ UNCHANGED <<win, os>>

OnClearRenderItemsAct ==
    /\ dlg.dialogOpen /\ dlg.listGroupEnabled
    /\ Len(dlg.renderItems) > 0
    /\ dlg' = OnClearRenderItems(dlg)
    /\ UNCHANGED <<win, os>>

\* the Start/Cancel button
OnGoAct ==
    /\ dlg.dialogOpen /\ dlg.goBtnEnabled
    /\ dlg' = OnGo(dlg)
    /\ UNCHANGED <<win, os>>

\* ESC or the window's close button
rejectAct ==
    /\ dlg.dialogOpen
    /\ dlg' = reject(dlg)
    /\ UNCHANGED <<win, os>>

\* the dialog's Cancel (Done) button
OnDoneAct ==
    /\ dlg.dialogOpen
    /\ dlg' = OnDone(dlg)
    /\ UNCHANGED <<win, os>>

\* the single-shot render timer fires
OnKickIdleTimoutAct ==
    /\ dlg.timerActive
    /\ dlg.captureState = "Capturing" => dlg.framesSpentInCurrentPhase < MaxCaptureFrames
    /\ dlg' = OnKickIdleTimout(dlg)
    /\ UNCHANGED <<win, os>>

\* the movie system notifies the dialog about a sequence it listens to
MovieEventAct ==
    /\ \E s \in dlg.listeners, event \in {"Started", "Stopped", "Aborted"} :
         dlg' = OnMovieEvent(dlg, event, s)
    /\ UNCHANGED <<win, os>>

\* the playing sequence ends while it is captured
MovieStopsAct ==
    /\ dlg.captureState = "Capturing"
    /\ \E s \in dlg.listeners, event \in {"Stopped", "Aborted"} :
         dlg' = OnMovieEvent(dlg, event, s)
    /\ UNCHANGED <<win, os>>

\* the editor leaves game mode without the dialog knowing about it
LeaveGameModeAct ==
    /\ dlg.inGameMode
    /\ dlg' = [dlg EXCEPT !.inGameMode = FALSE, !.gameModeQueued = FALSE]
    /\ UNCHANGED <<win, os>>

\* QFutureWatcher::finished of the ffmpeg task
FFMPEGFinishedAct ==
    /\ dlg.ffmpegRunning
    /\ dlg' = [dlg EXCEPT !.ffmpegRunning = FALSE, !.processingFFMPEG = FALSE]
    /\ UNCHANGED <<win, os>>

Next ==
    \/ OnAddRenderItemAct
    \/ OnClearRenderItemsAct
    \/ OnGoAct
    \/ rejectAct
    \/ OnDoneAct
    \/ OnKickIdleTimoutAct
    \/ MovieEventAct
    \/ LeaveGameModeAct
    \/ FFMPEGFinishedAct

Spec == Init /\ [][Next]_vars

\* The render timer keeps firing, a playing sequence eventually stops and a
\* started ffmpeg task eventually finishes.
FairSpec ==
    /\ Spec
    /\ WF_vars(OnKickIdleTimoutAct)
    /\ WF_vars(MovieStopsAct)
    /\ WF_vars(FFMPEGFinishedAct)

(***************************************************************************)
(* EditorWindow: actions                                                   *)
(***************************************************************************)
\* the user changes the active canvas: a command is pushed on its undo stack
MakeChangeAct ==
    /\ win.windowOpen
    /\ HasCanvasMetadata(win, win.active)
    /\ win' = [Begin(win, FALSE) EXCEPT !.canvases[win.active].undoStackClean = FALSE]
    /\ UNCHANGED <<dlg, os>>

\* the user undoes or redoes back to the clean index of the undo stack
BackToCleanAct ==
    /\ win.windowOpen
    /\ HasCanvasMetadata(win, win.active)
    /\ ~win.canvases[win.active].undoStackClean
    /\ win' = [Begin(win, FALSE) EXCEPT !.canvases[win.active].undoStackClean = TRUE]
    /\ UNCHANGED <<dlg, os>>

\* File > Save and File > Save As on the active canvas
SaveCanvasAct ==
    /\ win.windowOpen
    /\ HasCanvasMetadata(win, win.active)
    /\ \E force \in BOOLEAN, in \in SaveInputs :
         win' = SaveCanvasToXml(Begin(win, FALSE),
                                win.active, force, in).w
    /\ UNCHANGED <<dlg, os>>

NewCanvasAct ==
    /\ win.windowOpen
    /\ \E env \in LoadEnvs : win' = NewCanvas(Begin(win, TRUE), env)
    /\ UNCHANGED <<dlg, os>>

OpenCanvasAct ==
    /\ win.windowOpen
    /\ \E f \in OpenFileChoices, env \in LoadEnvs :
         win' = OpenCanvas(Begin(win, TRUE), f, env)
    /\ UNCHANGED <<dlg, os>>

OpenCanvasesAct ==
    /\ win.windowOpen
    /\ \E f1 \in OpenFileChoices, f2 \in OpenFileChoices,
          env \in {NoPopup, [NoPopup EXCEPT !.busy = TRUE]} :
         win' = OpenCanvases(Begin(win, FALSE), <<f1, f2>>, env)
    /\ UNCHANGED <<dlg, os>>

\* the user clicks on a tab
TabClickedAct ==
    /\ win.windowOpen
    /\ \E index \in 1..Len(win.tabs), busy \in BOOLEAN :
         /\ index # win.current
         /\ win' = OnCurrentCanvasTabChanged(
                      [Begin(win, FALSE) EXCEPT !.current = index], index, busy)
    /\ UNCHANGED <<dlg, os>>

CloseCanvasAct ==
    /\ win.windowOpen
    /\ \E c \in DOMAIN win.canvases : \E ins \in PromptsFor(win, {c}), busy \in BOOLEAN :
         win' = CloseCanvas(Begin(win, FALSE), c, PromptOf(ins, c), busy)
    /\ UNCHANGED <<dlg, os>>

OnCanvasTabCloseButtonPressedAct ==
    /\ win.windowOpen
    /\ \E index \in 1..Len(win.tabs) :
       \E ins \in PromptsFor(win, {win.tabs[index]}), busy \in BOOLEAN :
         win' = OnCanvasTabCloseButtonPressed(Begin(win, FALSE), index,
                                              PromptOf(ins, win.tabs[index]), busy)
    /\ UNCHANGED <<dlg, os>>

CloseAllCanvasesAct ==
    /\ win.windowOpen
    /\ \E ins \in PromptsFor(win, CanvasIds), busy \in BOOLEAN :
         win' = CloseAllCanvases(Begin(win, FALSE), ins, busy)
    /\ UNCHANGED <<dlg, os>>

CloseAllOtherCanvasesAct ==
    /\ win.windowOpen
    /\ \E c \in DOMAIN win.canvases :
       \E ins \in PromptsFor(win, CanvasIds \ {c}), busy \in BOOLEAN :
         win' = CloseAllOtherCanvases(Begin(win, FALSE), c, ins, busy)
    /\ UNCHANGED <<dlg, os>>

closeEventAct ==
    /\ win.windowOpen
    /\ \E ins \in PromptsFor(win, CanvasIds) :
         win' = closeEvent(Begin(win, FALSE), ins)
    /\ UNCHANGED <<dlg, os>>

NextWin ==
    \/ MakeChangeAct
    \/ BackToCleanAct
    \/ SaveCanvasAct
    \/ NewCanvasAct
    \/ OpenCanvasAct
    \/ OpenCanvasesAct
    \/ TabClickedAct
    \/ CloseCanvasAct
    \/ OnCanvasTabCloseButtonPressedAct
    \/ CloseAllCanvasesAct
    \/ CloseAllOtherCanvasesAct
    \/ closeEventAct

SpecWin == InitWin /\ [][NextWin]_vars

(***************************************************************************)
(* ObjectStream: actions                                                   *)
(***************************************************************************)
\* a class is reflected to the serialize context (generic types are not)
ReflectAct ==
    /\ \E class \in Classes \ {"Vector"} :
         /\ UuidOf(class) \notin os.registered
         /\ os' = [os EXCEPT !.registered = @ \cup {UuidOf(class)}]
    /\ UNCHANGED <<dlg, win>>

\* a class writer callback writes a root object
WriteClassAct ==
    /\ Len(os.passed) < MaxWrites
    /\ \E obj \in RootObjects, success \in BOOLEAN :
         os' = WriteClassT([os EXCEPT !.passed = Append(@, obj),
                                      !.known = Append(@, UuidOf(obj.dyn) \in os.registered)],
                           obj, success)
    /\ UNCHANGED <<dlg, win>>

NextOs == ReflectAct \/ WriteClassAct

SpecOs == InitOs /\ [][NextOs]_vars

(***************************************************************************)
(* Properties of the batch render dialog                                   *)
(***************************************************************************)
\* C1: within a batch CaptureItemStart is invoked for index 0, 1, ... in
\* increasing order, each index at most once, never beyond the render list,
\* and an item is started only after every earlier item has gone through
\* OnUpdateEnd and OnUpdateFinalize.
C1_SequentialCapture ==
    /\ IsInRendering(dlg) => Len(dlg.startLog) <= Len(dlg.renderItems)
    /\ \A j \in 1..Len(dlg.startLog) : dlg.startLog[j] = j - 1
    /\ \A j \in 1..(Len(dlg.startLog) - 1) :
          (j - 1) \in dlg.endLog /\ (j - 1) \in dlg.finalizeLog
    /\ dlg.finalizeLog \subseteq dlg.endLog

\* the second item of a batch is being captured
C1_Witness ==
    /\ dlg.startLog = <<0, 1>>
    /\ dlg.captureState = "Capturing"
    /\ dlg.currentItemIndex = 1

\* C2: under the fairness of FairSpec every batch in progress eventually
\* returns to Idle with IsInRendering false and the render timer stopped.
C2_BatchTerminates ==
    IsInRendering(dlg) ~>
        (~IsInRendering(dlg) /\ dlg.captureState = "Idle" /\ ~dlg.timerActive)

\* a batch of two items has run to its end
C2_Witness ==
    /\ dlg.captureState = "Idle"
    /\ ~IsInRendering(dlg)
    /\ ~dlg.timerActive
    /\ dlg.finalizeLog = {0, 1}

\* C3: CV_TrackViewRenderOutputCapturing is 1 exactly while the capture
\* state is not Idle, and 0 otherwise.
C3_CapturingCVar ==
    /\ dlg.CV_TrackViewRenderOutputCapturing \in {0, 1}
    /\ (dlg.CV_TrackViewRenderOutputCapturing = 1) <=> (dlg.captureState # "Idle")

\* a batch whose last item was canceled is over
C3_Witness ==
    /\ dlg.captureState = "Idle"
    /\ dlg.canceled
    /\ dlg.finalizeLog # {}
    /\ dlg.CV_TrackViewRenderOutputCapturing = 0

\* an item has gone through OnUpdateEnd and the next one has not started
ItemEnded == dlg.captureState \in {"FFMPEGProcessing", "Finalize"}

\* the batch has gone through OnUpdateEnd of its last item
BatchEnded ==
    \/ ItemEnded /\ dlg.currentItemIndex = Len(dlg.batchItems) - 1
    \/ dlg.captureState = "Idle" /\ dlg.finalizeLog # {}

\* the names that the custom cvar lines of an item set
CVarsSetBy(item) == { item.cvars[k].name : k \in 1..Len(item.cvars) }

\* C4 as stated: after OnUpdateEnd the sequence of the item and the three
\* cvars have the values from immediately before CaptureItemStart, and after
\* a whole batch everything has its pre-batch value.
C4_RestoredToPreStart ==
    /\ ItemEnded =>
         /\ dlg.seqs = dlg.preStart.seqs
         /\ dlg.console.val = dlg.preStart.val
    /\ BatchEnded =>
         /\ dlg.seqs = dlg.preBatch.seqs
         /\ dlg.console.val = dlg.preBatch.val

\* C4 amended: after OnUpdateEnd the sequence has its values from before
\* CaptureItemStart and the three cvars have the values they had when
\* CaptureItemStart backed them up, that is after the custom cvar lines of
\* the item were executed; a cvar that no custom line sets has its value
\* from before CaptureItemStart, respectively from before the batch.
C4_RestoredToBackup ==
    /\ ItemEnded =>
         /\ dlg.seqs = dlg.preStart.seqs
         /\ dlg.console.val = dlg.atBackup
         /\ \A n \in CVarNames \ CVarsSetBy(dlg.batchItems[dlg.currentItemIndex + 1]) :
               dlg.console.val[n] = dlg.preStart.val[n]
    /\ BatchEnded =>
         /\ dlg.seqs = dlg.preBatch.seqs
         /\ \A n \in CVarNames :
               (\A i \in 1..Len(dlg.batchItems) : n \notin CVarsSetBy(dlg.batchItems[i]))
                  => dlg.console.val[n] = dlg.preBatch.val[n]

\* the second of two items on the same sequence has ended after a cancel
C4_Witness ==
    /\ ItemEnded
    /\ dlg.currentItemIndex = 1
    /\ dlg.canceled
    /\ dlg.batchItems[1].pSequence = dlg.batchItems[2].pSequence
    /\ dlg.console.exists = CVarNames

\* C5: while a batch is rendering no step closes the dialog or saves the
\* default preset; reject and OnDone only request a cancel.
C5_NotClosedWhileRendering ==
    [][IsInRendering(dlg) =>
          /\ dlg.dialogOpen
          /\ dlg'.dialogOpen
          /\ dlg'.presetSaved = dlg.presetSaved]_vars

\* a cancel request ended an item that was entering game mode, the dialog
\* is still open
C5_Witness ==
    /\ dlg.captureState = "End"
    /\ "Capturing" \notin dlg.visited
    /\ dlg.canceled
    /\ dlg.dialogOpen
    /\ ~dlg.presetSaved

\* the edges of the capture state graph
CaptureStateEdges ==
    { <<"Idle", "WarmingUpAfterResChange">>,
      <<"WarmingUpAfterResChange", "EnteringGameMode">>,
      <<"EnteringGameMode", "BeginPlayingSequence">>,
      <<"EnteringGameMode", "End">>,
      <<"BeginPlayingSequence", "Capturing">>,
      <<"Capturing", "End">>,
      <<"End", "FFMPEGProcessing">>,
      <<"End", "Finalize">>,
      <<"FFMPEGProcessing", "Finalize">>,
      <<"Finalize", "WarmingUpAfterResChange">>,
      <<"Finalize", "Idle">> }

\* C10: the capture state changes only along CaptureStateEdges; Capturing is
\* entered only after both warm-up phases of the item, and Finalize only
\* after End of the item.
C10_StateEdges ==
    /\ [][dlg'.captureState # dlg.captureState =>
             <<dlg.captureState, dlg'.captureState>> \in CaptureStateEdges]_vars
    /\ [](dlg.captureState = "Capturing" =>
             {"WarmingUpAfterResChange", "EnteringGameMode", "BeginPlayingSequence"}
                \subseteq dlg.visited)
    /\ [](dlg.captureState = "Finalize" => "End" \in dlg.visited)

\* an item went through every state of the graph up to Finalize
C10_Witness ==
    /\ dlg.captureState = "Finalize"
    /\ dlg.visited = {"WarmingUpAfterResChange", "EnteringGameMode", "BeginPlayingSequence",
                      "Capturing", "End", "FFMPEGProcessing", "Finalize"}

(***************************************************************************)
(* Properties of the UI canvas editor                                      *)
(***************************************************************************)
\* C6: a canvas with unsaved changes is unloaded only after the user
\* answered Discard (after Save and a successful save it has no unsaved
\* changes any more); a canvas for which the user answered Cancel or whose
\* save failed stays loaded and the window stays open; the window closes
\* only if every canvas with unsaved changes got Discard.
C6_UnsavedCanvasKept ==
    /\ \A u \in win.unloaded :
          /\ ~u.clean => win.answers[u.id] = "Discard"
          /\ win.answers[u.id] \notin {"Cancel", "SaveFailed"}
    /\ \A c \in CanvasIds :
          win.answers[c] \in {"Cancel", "SaveFailed"} =>
             /\ c \in DOMAIN win.canvases
             /\ ~win.canvases[c].undoStackClean
             /\ win.windowOpen
    /\ ~win.windowOpen =>
          \A c \in DOMAIN win.canvases :
             win.canvases[c].undoStackClean \/ win.answers[c] = "Discard"

\* closing several canvases was refused by a failed save after a Discard:
\* both canvases are still loaded
C6_Witness ==
    \E c1 \in DOMAIN win.canvases, c2 \in DOMAIN win.canvases :
        /\ win.answers[c1] = "Discard"
        /\ win.answers[c2] = "SaveFailed"
        /\ ~win.canvases[c1].undoStackClean
        /\ win.unloaded = {}

\* C7 as stated: no two loaded canvases have the same non-empty source path.
C7_NoDuplicatePaths ==
    \A c1 \in DOMAIN win.canvases, c2 \in DOMAIN win.canvases :
        (c1 # c2 /\ win.canvases[c1].m_canvasSourceAssetPathname # "")
           => win.canvases[c1].m_canvasSourceAssetPathname
                 # win.canvases[c2].m_canvasSourceAssetPathname

\* the condition of C8, on the state before LoadCanvas
OnlyUnchangedAutoCanvas(w) ==
    /\ Cardinality(DOMAIN w.canvases) = 1
    /\ \A c \in DOMAIN w.canvases :
          /\ w.canvases[c].m_autoLoaded
          /\ w.canvases[c].undoStackClean
          /\ w.canvases[c].m_canvasSourceAssetPathname = ""

C9_WriteClassRegisteredOnly ==
    /\ Len(os.returned) = Len(os.passed)
    /\ \A k \in 1..Len(os.virtualCalls) :
          /\ os.virtualCalls[k].classId \in os.registered
          /\ \E n \in 1..Len(os.passed) :
                /\ os.virtualCalls[k].classId = UuidOf(os.passed[n].dyn)
                /\ os.virtualCalls[k].classPtr
                      = os.passed[n].ptr - SubobjectOffset(os.passed[n].T, os.passed[n].dyn)
                /\ os.returned[n] = os.virtualCalls[k].result
    /\ \A n \in 1..Len(os.passed) :
          ~os.known[n] => os.returned[n] = FALSE
    /\ Len(os.virtualCalls) = Cardinality({n \in 1..Len(os.passed) : os.known[n]})
    /\ Len(os.stream) = Cardinality({k \in 1..Len(os.virtualCalls) : os.virtualCalls[k].result})
    /\ Cardinality({n \in 1..Len(os.passed) : os.returned[n]}) = Len(os.stream)

\* a Derived object was written through a Base pointer, and an object of an
\* unregistered class was refused
C9_Witness ==
    /\ \E n \in 1..Len(os.passed) :
          os.passed[n].T = "Base" /\ os.passed[n].dyn = "Derived" /\ os.returned[n]
    /\ \E n \in 1..Len(os.passed) : ~os.known[n] /\ ~os.returned[n]
    /\ os.errors # {}

(***************************************************************************)
(* Properties of the warm-up phases and of the frame capture               *)
(***************************************************************************)
\* C11: for every item the transition to EnteringGameMode, together with
\* SetInGameMode(true), happens after exactly 30 ticks in state
\* WarmingUpAfterResChange: 30 ticks counted from the tick after
\* CaptureItemStart only warm up, and the tick that follows them queues the
\* game mode and enters EnteringGameMode.  Before that tick the game mode is
\* not requested.
C11_ThirtyWarmUpTicks ==
    /\ [][(dlg.captureState = "WarmingUpAfterResChange"
           /\ dlg'.captureState = "EnteringGameMode") =>
             (/\ dlg.warmUpTicks = 30
              /\ dlg'.warmUpTicks = 31
              /\ ~dlg.gameModeQueued
              /\ dlg'.gameModeQueued)]_vars
    /\ [](dlg.captureState = "WarmingUpAfterResChange" =>
             (/\ dlg.warmUpTicks <= 30
              /\ dlg.warmUpTicks = dlg.framesSpentInCurrentPhase
              /\ ~dlg.gameModeQueued
              /\ ~dlg.inGameMode))
    /\ []((IsInRendering(dlg) /\ dlg.captureState # "WarmingUpAfterResChange") =>
             dlg.warmUpTicks = 31)

\* the second item of a batch has just left its warm-up
C11_Witness ==
    /\ dlg.captureState = "EnteringGameMode"
    /\ dlg.currentItemIndex = 1
    /\ dlg.warmUpTicks = 31
    /\ dlg.gameModeTicks = 0
    /\ dlg.gameModeQueued

\* C12 as stated: an item that is not canceled enters BeginPlayingSequence
\* after 30 ticks in state EnteringGameMode, and the movie system is paused
\* exactly once for the item, on the first of those ticks.
C12_ThirtyGameModeTicks ==
    /\ [][(dlg.captureState = "EnteringGameMode"
           /\ dlg'.captureState = "BeginPlayingSequence") =>
             (dlg.gameModeTicks = 30 /\ dlg'.pauseCount = 1)]_vars
    /\ [](dlg.captureState = "EnteringGameMode" =>
             dlg.pauseCount = (IF dlg.gameModeTicks >= 1 THEN 1 ELSE 0))
    /\ []("BeginPlayingSequence" \in dlg.visited => dlg.pauseCount = 1)

\* the number of calls of name in the calls of a tick
CallsOf(name) ==
    Cardinality({i \in 1..Len(dlg.lastTick.calls) : dlg.lastTick.calls[i] = name})

\* C13: in every OnKickIdle tick StartCapture is called only if the editor
\* is in game mode and the state after the tick's state handler is Capturing
\* with a frame count of at least 1, so never in the tick that enters
\* Capturing; every StartCapture is followed in the same tick by one
\* game-engine Update and one EndCapture, and there is no EndCapture without
\* a StartCapture.
C13_CaptureOnlyWhileCapturing ==
    /\ CallsOf("StartCapture") <= 1
    /\ CallsOf("StartCapture") = 1 =>
          /\ dlg.lastTick.inGameMode
          /\ dlg.lastTick.after = "Capturing"
          /\ dlg.lastTick.handled = "Capturing"
          /\ dlg.lastTick.frame >= 1
          /\ dlg.lastTick.calls = <<"StartCapture", "Update", "EndCapture">>
    /\ CallsOf("StartCapture") = 0 =>
          /\ CallsOf("EndCapture") = 0
          /\ dlg.lastTick.frame = 0
    /\ dlg.lastTick.handled = "BeginPlayingSequence" =>
          /\ dlg.lastTick.after = "Capturing"
          /\ CallsOf("StartCapture") = 0
    /\ ~dlg.lastTick.inGameMode => dlg.lastTick.calls = <<>>

\* the second frame of an item was captured
C13_Witness ==
    /\ dlg.lastTick.calls = <<"StartCapture", "Update", "EndCapture">>
    /\ dlg.lastTick.frame = 2
    /\ dlg.captureState = "Capturing"
    /\ dlg.inGameMode

====
